---- MODULE Spec2Model ----
(***************************************************************************)
(* Model of src/api.py: five POST endpoints over the tables users and      *)
(* deposit_addresses, served by concurrently running handlers that share   *)
(* one asyncpg connection pool.  A handler runs synchronously up to its    *)
(* first await, so the steps of one request are: the entry (payload and,   *)
(* for /api/personal-data/save, the date parse), the acquire of a pooled   *)
(* connection, the single SQL statement, and the release followed by the   *)
(* shaping of the response.                                                *)
(*                                                                         *)
(* Amounts are integers (a number of smallest units); an optional value is *)
(* the empty tuple (None / NULL) or a one-element tuple; a string that is  *)
(* parsed (birth_date) is the tuple of its characters.                     *)
(***************************************************************************)
EXTENDS Integers, Sequences, FiniteSets, TLC

\* ---------------------------------------------------------------- bounds
NumWorkers == 2
MaxRequests == 2
MaxPoolSize == 2

Procs == 1..NumWorkers

\* ---------------------------------------------------------------- values
None == <<>>
Some(v) == <<v>>
Truthy(o) == o # None /\ o[1] # <<>>

KnownTgIds == {1, 2}
UnknownTgIds == {3}
TgIds == KnownTgIds \cup UnknownTgIds
UserId(t) == 10 + t

Digit == [c \in {"0","1","2","3","4","5","6","7","8","9"} |->
            CASE c = "0" -> 0 [] c = "1" -> 1 [] c = "2" -> 2 [] c = "3" -> 3
              [] c = "4" -> 4 [] c = "5" -> 5 [] c = "6" -> 6 [] c = "7" -> 7
              [] c = "8" -> 8 [] c = "9" -> 9]
IsDigit(c) == c \in DOMAIN Digit
DigitChar(n) == CHOOSE c \in DOMAIN Digit : Digit[c] = n

VARIABLES
    users,              \* table users: tg_id -> row
    deposit_addresses,  \* table deposit_addresses: a set of rows
    max_size,           \* connections db_pool holds
    held,               \* connections each handler has out of db_pool
    pc,                 \* where each handler is
    req,                \* its request
    birth_date_db,      \* its local birth_date_db
    row,                \* its local row
    exc,                \* whether an exception of fetchrow is leaving it
    response,           \* what it answered
    nreq,               \* requests received so far
    log,                \* the UPDATE statements that matched a row, in the
                        \* order the database ran them
    pos,                \* for each handler, the length of log right after
                        \* its statement
    balance0            \* the balances at startup

vars == <<users, deposit_addresses, max_size, held, pc, req, birth_date_db, row,
          exc, response, nreq, log, pos, balance0>>

\* ------------------------------------------------------- pure functions
\* LEAST in the place of GREATEST.
Least(a, b) == IF a <= b THEN a ELSE b

\* GREATEST(a, b) of the UPDATE statement of change_balance.
GREATEST(a, b) == IF a >= b THEN a ELSE b

\* SET balance_usdt = balance_usdt + $1: no floor.
NewBalanceUnclamped(balance_usdt, delta) == balance_usdt + delta

\* SET balance_usdt = GREATEST(0, balance_usdt + $1)
NewBalance(balance_usdt, delta) == GREATEST(0, balance_usdt + delta)

\* float(row["balance_usdt"]): exact on the integer amounts of the model.
float(x) == x

\* The text alternatives of the directives of "%Y-%m-%d" as datetime.strptime
\* matches them: %Y is four digits, %m is 1[0-2]|0[1-9]|[1-9], %d is
\* 3[01]|[12]\d|0[1-9]|[1-9]| [1-9].
YearText(t) == Len(t) = 4 /\ \A i \in 1..4 : IsDigit(t[i])
MonthText(t) ==
    \/ Len(t) = 1 /\ IsDigit(t[1]) /\ t[1] # "0"
    \/ Len(t) = 2 /\ t[1] = "0" /\ IsDigit(t[2]) /\ t[2] # "0"
    \/ Len(t) = 2 /\ t[1] = "1" /\ t[2] \in {"0", "1", "2"}
DayText(t) ==
    \/ Len(t) = 1 /\ IsDigit(t[1]) /\ t[1] # "0"
    \/ Len(t) = 2 /\ t[1] = "3" /\ t[2] \in {"0", "1"}
    \/ Len(t) = 2 /\ t[1] \in {"1", "2"} /\ IsDigit(t[2])
    \/ Len(t) = 2 /\ t[1] \in {"0", " "} /\ IsDigit(t[2]) /\ t[2] # "0"

\* int() of a matched group (int strips the blank a day may start with).
RECURSIVE IntOf(_)
IntOf(t) ==
    IF t = <<>> THEN 0
    ELSE IF t[Len(t)] = " " THEN 0
    ELSE 10 * IntOf(SubSeq(t, 1, Len(t) - 1)) + Digit[t[Len(t)]]

IsLeap(y) == y % 4 = 0 /\ (y % 100 # 0 \/ y % 400 = 0)
DaysInMonth(y, m) ==
    IF m = 2 THEN (IF IsLeap(y) THEN 29 ELSE 28)
    ELSE IF m \in {4, 6, 9, 11} THEN 30 ELSE 31

\* datetime.date(y, m, d) raises ValueError outside the calendar.
ValidDate(y, m, d) ==
    y >= 1 /\ m \in 1..12 /\ d >= 1 /\ d <= DaysInMonth(y, m)

Dashes(s) == {i \in 1..Len(s) : s[i] = "-"}

\* The whole string has to be year "-" month "-" day ("unconverted data
\* remains" otherwise); the second dash follows a month of one or two
\* characters.
SecondDash(s) == CHOOSE j \in Dashes(s) : j # 5

Matches(s) ==
    LET D == Dashes(s) IN
    /\ Cardinality(D) = 2
    /\ 5 \in D
    /\ YearText(SubSeq(s, 1, 4))
    /\ LET j == SecondDash(s) IN
       /\ MonthText(SubSeq(s, 6, j - 1))
       /\ DayText(SubSeq(s, j + 1, Len(s)))

DateOf(s) ==
    LET j == SecondDash(s) IN
    [year  |-> IntOf(SubSeq(s, 1, 4)),
     month |-> IntOf(SubSeq(s, 6, j - 1)),
     day   |-> IntOf(SubSeq(s, j + 1, Len(s)))]

\* A parse that takes the three numbers without asking the calendar.
StrptimeUnchecked(s) == IF Matches(s) THEN Some(DateOf(s)) ELSE None

InCalendar(d) == ValidDate(d.year, d.month, d.day)

\* datetime.strptime(s, "%Y-%m-%d").date(): None stands for ValueError.
strptime(s) ==
    IF Matches(s)
    THEN LET d == DateOf(s) IN IF InCalendar(d) THEN Some(d) ELSE None
    ELSE None

\* Day and month the other way round: "%Y-%d-%m".
IsoformatDayFirst(d) ==
    << DigitChar(d.year \div 1000), DigitChar((d.year \div 100) % 10),
       DigitChar((d.year \div 10) % 10), DigitChar(d.year % 10), "-",
       DigitChar(d.day \div 10), DigitChar(d.day % 10), "-",
       DigitChar(d.month \div 10), DigitChar(d.month % 10) >>

\* date.isoformat(): "%04d-%02d-%02d".
isoformat(d) ==
    << DigitChar(d.year \div 1000), DigitChar((d.year \div 100) % 10),
       DigitChar((d.year \div 10) % 10), DigitChar(d.year % 10), "-",
       DigitChar(d.month \div 10), DigitChar(d.month % 10), "-",
       DigitChar(d.day \div 10), DigitChar(d.day % 10) >>

\* row["birth_date"].isoformat() if row["birth_date"] else None
RenderBirthDate(o) == IF o # None THEN Some(isoformat(o[1])) ELSE None

\* HTTPException(status_code, detail): an error response has no result field.
HTTPException(status_code, detail) == [status |-> status_code, detail |-> detail]
Ok(body) == [status |-> 200, body |-> body]
NoResponse == [status |-> 0, detail |-> ""]

\* ------------------------------------------------------------- requests
BalanceRequest(t) == [op |-> "get_balance", tg_id |-> t]
DepositAddressRequest(t) == [op |-> "get_deposit_address", tg_id |-> t]
BalanceChangeRequest(t, d) == [op |-> "change_balance", tg_id |-> t, delta |-> d]
PersonalDataRequest(t, f, l, b, g) ==
    [op |-> "save_personal_data", tg_id |-> t, first_name |-> f,
     last_name |-> l, birth_date |-> b, gender |-> g]
PersonalDataGetRequest(t) == [op |-> "get_personal_data", tg_id |-> t]
NoRequest == [op |-> "none"]

Deltas == {-2, 1}

LeapDay     == <<"2","0","2","4","-","0","2","-","2","9">>
NoSuchDay   == <<"2","0","2","4","-","0","2","-","3","0">>
NotLeapDay  == <<"2","0","2","3","-","0","2","-","2","9">>
Unpadded    == <<"2","0","2","4","-","2","-","3">>
BlankPadded == <<"2","0","2","4","-","1","2","-"," ","7">>
EmptyString == <<>>

\* The profile payloads the requests are drawn from: a full one, an empty
\* one (every field omitted), partial ones, and the date strings above.
Payloads ==
    { [first_name |-> Some("Ann"), last_name |-> Some("Lee"),
       birth_date |-> Some(LeapDay), gender |-> Some("female")],
      [first_name |-> None, last_name |-> None,
       birth_date |-> None, gender |-> None],
      [first_name |-> Some("Bob"), last_name |-> None,
       birth_date |-> Some(Unpadded), gender |-> None],
      [first_name |-> Some("Bob"), last_name |-> None,
       birth_date |-> Some(NoSuchDay), gender |-> Some("male")],
      [first_name |-> None, last_name |-> Some("Lee"),
       birth_date |-> Some(EmptyString), gender |-> None],
      [first_name |-> None, last_name |-> None,
       birth_date |-> Some(NotLeapDay), gender |-> Some("male")],
      [first_name |-> Some("Ann"), last_name |-> None,
       birth_date |-> Some(BlankPadded), gender |-> None] }

SaveRequest(t, f) ==
    PersonalDataRequest(t, f.first_name, f.last_name, f.birth_date, f.gender)

BalanceRequests ==
    {BalanceRequest(t) : t \in TgIds}
      \cup {BalanceChangeRequest(t, d) : t \in TgIds, d \in Deltas}
\* Profiles are saved for user 1 and for the unknown tg_id; user 2 is the
\* bystander whose row has to stay as it is.
SaveTgIds == {1} \cup UnknownTgIds
ProfileRequests ==
    {PersonalDataGetRequest(t) : t \in SaveTgIds}
      \cup {SaveRequest(t, f) : t \in SaveTgIds, f \in Payloads}
DepositRequests == {DepositAddressRequest(t) : t \in TgIds}

\* ---------------------------------------------------------------- tables
UserRow(t, b, f, l, d, g) ==
    [id |-> UserId(t), balance_usdt |-> b, first_name |-> f, last_name |-> l,
     birth_date |-> d, gender |-> g]

\* The rows the registration flow (not part of api.py) has created: user 1
\* with a filled profile, user 2 with an empty one.
InitUsers(bal) ==
    [t \in KnownTgIds |->
        IF t = 1
        THEN UserRow(t, bal[t], Some("Zoe"), Some("Kim"),
                     Some([year |-> 2000, month |-> 1, day |-> 31]), Some("other"))
        ELSE UserRow(t, bal[t], None, None, None, None)]

AddressRows ==
    { [user_id |-> UserId(1), address |-> "a_old", assigned_at |-> 1],
      [user_id |-> UserId(1), address |-> "a_new", assigned_at |-> 2],
      [user_id |-> UserId(1), address |-> "a_tie", assigned_at |-> 2],
      [user_id |-> UserId(2), address |-> "b_one", assigned_at |-> 3] }

RECURSIVE SumOver(_, _)
SumOver(f, S) ==
    IF S = {} THEN 0
    ELSE LET x == CHOOSE x \in S : TRUE IN f[x] + SumOver(f, S \ {x})

\* Connections out of the pool.
InUse == SumOver(held, Procs)

\* The state once on_startup has created db_pool.
InitWith(bals, rows, sizes) ==
    /\ users \in {InitUsers(b) : b \in bals}
    /\ deposit_addresses \in rows
    /\ max_size \in sizes
    /\ balance0 = [t \in KnownTgIds |-> users[t].balance_usdt]
    /\ held = [p \in Procs |-> 0]
    /\ pc = [p \in Procs |-> "idle"]
    /\ req = [p \in Procs |-> NoRequest]
    /\ birth_date_db = [p \in Procs |-> None]
    /\ row = [p \in Procs |-> None]
    /\ exc = [p \in Procs |-> FALSE]
    /\ response = [p \in Procs |-> NoResponse]
    /\ nreq = 0
    /\ log = <<>>
    /\ pos = [p \in Procs |-> 0]

\* ------------------------------------------------------- SQL statements
\* The UPDATE without its WHERE clause: every row is changed.
UpdateBalanceEveryRow(u, t, d) ==
    [k \in DOMAIN u |-> [u[k] EXCEPT !.balance_usdt = NewBalance(@, d)]]

\* UPDATE users SET balance_usdt = GREATEST(0, balance_usdt + $1)
\* WHERE tg_id = $2: the table after the statement.
UpdateBalance(u, t, d) ==
    IF t \in DOMAIN u
    THEN [u EXCEPT ![t].balance_usdt = NewBalance(@, d)]
    ELSE u

\* The balance as it was read before the statement ran.
ReturningBalanceBefore(u, t) ==
    IF t \in DOMAIN users
    THEN Some([balance_usdt |-> users[t].balance_usdt])
    ELSE None

\* ... RETURNING balance_usdt: the updated row of the table u after the
\* statement, as fetchrow gives it back (None: no row matched).
ReturningBalance(u, t) ==
    IF t \in DOMAIN u THEN Some([balance_usdt |-> u[t].balance_usdt]) ELSE None

\* SELECT balance_usdt FROM users WHERE tg_id = $1
SelectBalance(u, t) ==
    IF t \in DOMAIN u THEN Some([balance_usdt |-> u[t].balance_usdt]) ELSE None

\* SET first_name = COALESCE($1, first_name), ...: a NULL parameter keeps
\* the stored value.
UpdateProfileCoalesce(u, t, f, l, b, g) ==
    IF t \in DOMAIN u
    THEN [u EXCEPT ![t].first_name = IF f = None THEN @ ELSE f,
                   ![t].last_name = IF l = None THEN @ ELSE l,
                   ![t].birth_date = IF b = None THEN @ ELSE b,
                   ![t].gender = IF g = None THEN @ ELSE g]
    ELSE u

\* INSERT ... ON CONFLICT (tg_id) DO UPDATE: an unknown tg_id gets a row.
UpdateProfileUpsert(u, t, f, l, b, g) ==
    [k \in DOMAIN u \cup {t} |->
        IF k = t
        THEN [id |-> UserId(t),
              balance_usdt |-> IF t \in DOMAIN u THEN u[t].balance_usdt ELSE 0,
              first_name |-> f, last_name |-> l, birth_date |-> b, gender |-> g]
        ELSE u[k]]

\* UPDATE users SET first_name = $1, last_name = $2, birth_date = $3,
\* gender = $4 WHERE tg_id = $5
UpdateProfile(u, t, f, l, b, g) ==
    IF t \in DOMAIN u
    THEN [u EXCEPT ![t].first_name = f, ![t].last_name = l,
                   ![t].birth_date = b, ![t].gender = g]
    ELSE u

\* SELECT first_name, last_name, birth_date, gender FROM users WHERE tg_id = $1
SelectProfile(u, t) ==
    IF t \in DOMAIN u
    THEN Some([first_name |-> u[t].first_name, last_name |-> u[t].last_name,
               birth_date |-> u[t].birth_date, gender |-> u[t].gender])
    ELSE None

\* ... RETURNING first_name, last_name, birth_date, gender: the updated row
\* of the table u after the statement.
ReturningProfile(u, t) ==
    IF t \in DOMAIN u
    THEN Some([first_name |-> u[t].first_name, last_name |-> u[t].last_name,
               birth_date |-> u[t].birth_date, gender |-> u[t].gender])
    ELSE None

\* FROM deposit_addresses da JOIN users u ON da.user_id = u.id WHERE u.tg_id = $1
JoinedAddresses(u, da, t) ==
    {r \in da : \E k \in DOMAIN u : k = t /\ u[k].id = r.user_id}

\* ORDER BY da.assigned_at with no DESC.
Earliest(R) == {r \in R : \A q \in R : q.assigned_at >= r.assigned_at}

\* ORDER BY da.assigned_at DESC LIMIT 1: the rows that may come first (rows
\* of equal assigned_at come in an order the database chooses).
Latest(R) == {r \in R : \A q \in R : q.assigned_at <= r.assigned_at}

\* ------------------------------------------------------------ responses
NotFound(op) ==
    IF op = "get_deposit_address"
    THEN HTTPException(404, "Deposit address not found")
    ELSE HTTPException(404, "User not found")

\* The code of each handler after its "async with" block.
Respond(r, rw) ==
    IF rw = None THEN NotFound(r.op)
    ELSE IF r.op \in {"get_balance", "change_balance"}
         THEN Ok([balance |-> float(rw[1].balance_usdt)])
    ELSE IF r.op = "get_deposit_address"
         THEN Ok([address |-> rw[1].address])
    ELSE Ok([first_name |-> rw[1].first_name, last_name |-> rw[1].last_name,
             birth_date |-> RenderBirthDate(rw[1].birth_date),
             gender |-> rw[1].gender])

\* -------------------------------------------------------------- actions
\* A request arrives and its handler runs up to its first await.  Only
\* save_personal_data does anything there: it parses birth_date "if it
\* came" and answers 400 on ValueError.  Handlers are alike, so of those that
\* never ran the first one takes the request.
Handle(p, r) ==
    /\ pc[p] \in {"idle", "done"}
    /\ pc[p] = "idle" => \A q \in 1..(p - 1) : pc[q] # "idle"
    /\ nreq < MaxRequests
    /\ nreq' = nreq + 1
    /\ req' = [req EXCEPT ![p] = r]
    /\ row' = [row EXCEPT ![p] = None]
    /\ exc' = [exc EXCEPT ![p] = FALSE]
    /\ pos' = [pos EXCEPT ![p] = 0]
    /\ IF r.op = "save_personal_data" /\ Truthy(r.birth_date)
       THEN LET parsed == strptime(r.birth_date[1]) IN
            IF parsed = None
            THEN /\ response' = [response EXCEPT ![p] =
                        HTTPException(400, "Invalid date format. Expected YYYY-MM-DD")]
                 /\ pc' = [pc EXCEPT ![p] = "done"]
                 /\ birth_date_db' = [birth_date_db EXCEPT ![p] = None]
            ELSE /\ response' = [response EXCEPT ![p] = NoResponse]
                 /\ pc' = [pc EXCEPT ![p] = "acquire"]
                 /\ birth_date_db' = [birth_date_db EXCEPT ![p] = parsed]
       ELSE /\ response' = [response EXCEPT ![p] = NoResponse]
            /\ pc' = [pc EXCEPT ![p] = "acquire"]
            /\ birth_date_db' = [birth_date_db EXCEPT ![p] = None]
    /\ UNCHANGED <<users, deposit_addresses, max_size, held, log, balance0>>

\* async with db_pool.acquire() as conn: waits while the pool is empty.
Acquire(p) ==
    /\ pc[p] = "acquire"
    /\ InUse < max_size
    /\ held' = [held EXCEPT ![p] = @ + 1]
    /\ pc' = [pc EXCEPT ![p] = "fetchrow"]
    /\ UNCHANGED <<users, deposit_addresses, max_size, req, birth_date_db, row,
                   exc, response, nreq, log, pos, balance0>>

Fetched(p, rw) ==
    /\ row' = [row EXCEPT ![p] = rw]
    /\ pc' = [pc EXCEPT ![p] = "release"]
    /\ UNCHANGED <<max_size, held, req, birth_date_db, exc, response, nreq, balance0>>

get_balance(p) ==
    /\ pc[p] = "fetchrow" /\ req[p].op = "get_balance"
    /\ Fetched(p, SelectBalance(users, req[p].tg_id))
    /\ pos' = [pos EXCEPT ![p] = Len(log)]
    /\ UNCHANGED <<users, deposit_addresses, log>>

get_deposit_address(p) ==
    /\ pc[p] = "fetchrow" /\ req[p].op = "get_deposit_address"
    /\ LET R == Latest(JoinedAddresses(users, deposit_addresses, req[p].tg_id))
       IN  IF R = {} THEN Fetched(p, None)
           ELSE \E r \in R : Fetched(p, Some([address |-> r.address]))
    /\ UNCHANGED <<users, deposit_addresses, log, pos>>

\* The UPDATE is one statement: the database reads, clamps and writes the
\* row in one step.
change_balance(p) ==
    /\ pc[p] = "fetchrow" /\ req[p].op = "change_balance"
    /\ users' = UpdateBalance(users, req[p].tg_id, req[p].delta)
    /\ Fetched(p, ReturningBalance(users', req[p].tg_id))
    /\ IF req[p].tg_id \in DOMAIN users
       THEN log' = Append(log, req[p])
       ELSE log' = log
    /\ pos' = [pos EXCEPT ![p] = Len(log')]
    /\ UNCHANGED deposit_addresses

save_personal_data(p) ==
    /\ pc[p] = "fetchrow" /\ req[p].op = "save_personal_data"
    /\ users' = UpdateProfile(users, req[p].tg_id, req[p].first_name,
                              req[p].last_name, birth_date_db[p], req[p].gender)
    /\ Fetched(p, ReturningProfile(users', req[p].tg_id))
    /\ IF req[p].tg_id \in DOMAIN users
       THEN log' = Append(log, req[p])
       ELSE log' = log
    /\ pos' = [pos EXCEPT ![p] = Len(log')]
    /\ UNCHANGED deposit_addresses

get_personal_data(p) ==
    /\ pc[p] = "fetchrow" /\ req[p].op = "get_personal_data"
    /\ Fetched(p, SelectProfile(users, req[p].tg_id))
    /\ pos' = [pos EXCEPT ![p] = Len(log)]
    /\ UNCHANGED <<users, deposit_addresses, log>>

\* conn.fetchrow raises (connection lost, statement rejected): the statement
\* has no effect and the exception leaves the "async with" block.
fetchrow_raises(p) ==
    /\ pc[p] = "fetchrow"
    /\ exc' = [exc EXCEPT ![p] = TRUE]
    /\ pc' = [pc EXCEPT ![p] = "release"]
    /\ UNCHANGED <<users, deposit_addresses, max_size, held, req, birth_date_db,
                   row, response, nreq, log, pos, balance0>>

\* A release written after the query with no try/finally: an exception of
\* fetchrow skips it.
ReleaseUnlessRaised(p) ==
    /\ pc[p] = "release"
    /\ held' = [held EXCEPT ![p] = IF exc[p] THEN @ ELSE @ - 1]
    /\ response' = [response EXCEPT ![p] =
            IF exc[p] THEN HTTPException(500, "Internal Server Error")
            ELSE Respond(req[p], row[p])]
    /\ pc' = [pc EXCEPT ![p] = "done"]
    /\ UNCHANGED <<users, deposit_addresses, max_size, req, birth_date_db, row,
                   exc, nreq, log, pos, balance0>>

\* The exit of the "async with" block gives the connection back, on return
\* and on exception alike; the rest of the handler runs with no await: 404
\* when there is no row, the result otherwise (500 for the exception).
Release(p) ==
    /\ pc[p] = "release"
    /\ held' = [held EXCEPT ![p] = @ - 1]
    /\ response' = [response EXCEPT ![p] =
            IF exc[p] THEN HTTPException(500, "Internal Server Error")
            ELSE Respond(req[p], row[p])]
    /\ pc' = [pc EXCEPT ![p] = "done"]
    /\ UNCHANGED <<users, deposit_addresses, max_size, req, birth_date_db, row,
                   exc, nreq, log, pos, balance0>>

\* ------------------------------------------------------- specifications
\* The whole API: every endpoint, for user 1 and for the unknown tg_id, with
\* one delta and with the full and the empty profile payload.
ApiRequests ==
    {BalanceRequest(t) : t \in SaveTgIds}
      \cup {DepositAddressRequest(t) : t \in SaveTgIds}
      \cup {BalanceChangeRequest(t, -2) : t \in SaveTgIds}
      \cup {PersonalDataGetRequest(t) : t \in SaveTgIds}
      \cup {SaveRequest(t, f) : t \in SaveTgIds,
              f \in {g \in Payloads : g.birth_date \in {None, Some(LeapDay)}}}

Init == InitWith({[t \in KnownTgIds |-> 1]}, {AddressRows}, {1, MaxPoolSize})

Next ==
    \E p \in Procs :
        \/ \E r \in ApiRequests : Handle(p, r)
        \/ Acquire(p)
        \/ get_balance(p)
        \/ get_deposit_address(p)
        \/ change_balance(p)
        \/ save_personal_data(p)
        \/ get_personal_data(p)
        \/ fetchrow_raises(p)
        \/ Release(p)

Spec == Init /\ [][Next]_vars

\* /api/balance and /api/change-balance, from every initial balance.
StartBalances == {0, 1}

InitBalance == InitWith([KnownTgIds -> StartBalances], {AddressRows}, {MaxPoolSize})

NextBalance ==
    \E p \in Procs :
        \/ \E r \in BalanceRequests : Handle(p, r)
        \/ Acquire(p)
        \/ get_balance(p)
        \/ change_balance(p)
        \/ fetchrow_raises(p)
        \/ Release(p)

SpecBalance == InitBalance /\ [][NextBalance]_vars

\* /api/personal-data/save and /api/personal-data/get, with every payload.
NextProfile ==
    \E p \in Procs :
        \/ \E r \in ProfileRequests : Handle(p, r)
        \/ Acquire(p)
        \/ save_personal_data(p)
        \/ get_personal_data(p)
        \/ fetchrow_raises(p)
        \/ Release(p)

InitProfile == InitWith({[t \in KnownTgIds |-> 1]}, {AddressRows}, {MaxPoolSize})

SpecProfile == InitProfile /\ [][NextProfile]_vars

\* /api/deposit-address, over every deposit_addresses table made of AddressRows.
InitDeposit == InitWith({[t \in KnownTgIds |-> 1]}, SUBSET AddressRows, {MaxPoolSize})

NextDeposit ==
    \E p \in Procs :
        \/ \E r \in DepositRequests : Handle(p, r)
        \/ Acquire(p)
        \/ get_deposit_address(p)
        \/ fetchrow_raises(p)
        \/ Release(p)

SpecDeposit == InitDeposit /\ [][NextDeposit]_vars

\* =============================================================== claims
Moved(p) == pc[p] = "fetchrow" /\ pc'[p] = "release" /\ ~exc'[p]
Answered(p, op) == pc[p] = "done" /\ req[p].op = op /\ response[p].status = 200

\* ---------------------------------------------------------------- C1
\* C1: no stored balance is ever negative, whatever requests have run and
\* however they interleave.
C1_BalanceNeverNegative ==
    \A t \in DOMAIN users : users[t].balance_usdt >= 0

\* The floor, stated on its own.
Max0(x) == IF x < 0 THEN 0 ELSE x

\* The balance of user t after the first k statements of log, each delta
\* applied and cut at zero in turn.
RECURSIVE BalanceAfter(_, _)
BalanceAfter(t, k) ==
    IF k = 0 THEN balance0[t]
    ELSE IF log[k].op = "change_balance" /\ log[k].tg_id = t
         THEN Max0(BalanceAfter(t, k - 1) + log[k].delta)
         ELSE BalanceAfter(t, k - 1)

\* A decrement larger than the balance it met has been answered.
C1_Witness ==
    \E p \in Procs :
        /\ Answered(p, "change_balance")
        /\ BalanceAfter(req[p].tg_id, pos[p] - 1) + req[p].delta < 0
        /\ users[req[p].tg_id].balance_usdt = 0

\* ---------------------------------------------------------------- C2
C2_Step ==
    \A p \in Procs :
        (Moved(p) /\ req[p].op = "change_balance" /\ req[p].tg_id \in DOMAIN users)
        => /\ users'[req[p].tg_id].balance_usdt =
                  Max0(users[req[p].tg_id].balance_usdt + req[p].delta)
           /\ row'[p] = Some([balance_usdt |->
                  Max0(users[req[p].tg_id].balance_usdt + req[p].delta)])

C2_Response ==
    \A p \in Procs :
        Answered(p, "change_balance")
        => response[p].body = [balance |-> row[p][1].balance_usdt]

\* Only handler 1 has run so far: the requests were served one after another.
Serial == \A q \in Procs \ {1} : pc[q] = "idle"

\* The sum of the deltas the first k statements of log gave user t.
RECURSIVE SumDeltas(_, _)
SumDeltas(t, k) ==
    IF k = 0 THEN 0
    ELSE IF log[k].op = "change_balance" /\ log[k].tg_id = t
         THEN SumDeltas(t, k - 1) + log[k].delta
         ELSE SumDeltas(t, k - 1)

\* No statement before the last one met a balance smaller than its decrement.
NoEarlierClamp(t) ==
    \A k \in 1..(Len(log) - 1) :
        (log[k].op = "change_balance" /\ log[k].tg_id = t)
        => BalanceAfter(t, k - 1) + log[k].delta >= 0

C2_Serial ==
    Serial =>
        \A t \in KnownTgIds :
            /\ users[t].balance_usdt = BalanceAfter(t, Len(log))
            /\ NoEarlierClamp(t) =>
                  users[t].balance_usdt = Max0(balance0[t] + SumDeltas(t, Len(log)))

\* C2: change-balance on an existing user stores max(0, b + delta) and
\* answers with that value; requests served one after another leave the
\* balance cut at zero after each step.
C2_ClampEachStep == [](C2_Response /\ C2_Serial) /\ [][C2_Step]_vars

\* Two serial changes of one user whose result is not the floor of the sum.
C2_Witness ==
    /\ Serial /\ pc[1] = "done" /\ Len(log) = 2
    /\ log[1].tg_id = log[2].tg_id
    /\ users[log[1].tg_id].balance_usdt #
          Max0(balance0[log[1].tg_id] + log[1].delta + log[2].delta)

\* ---------------------------------------------------------------- C9
\* C9: under any interleaving the stored balance is the result of all the
\* deltas applied, each cut at zero, in the order the database ran the
\* statements, and each handler got the balance as its own statement left it.
C9_NoLostUpdate ==
    /\ \A t \in KnownTgIds : users[t].balance_usdt = BalanceAfter(t, Len(log))
    /\ \A p \in Procs :
          (pc[p] \in {"release", "done"} /\ req[p].op = "change_balance"
             /\ row[p] # None)
          => /\ row[p][1].balance_usdt = BalanceAfter(req[p].tg_id, pos[p])
             /\ pc[p] = "done" =>
                   response[p] = Ok([balance |-> BalanceAfter(req[p].tg_id, pos[p])])

\* Two handlers hold a connection for the same user at once: the one that
\* came second has run its statement, the other has not yet.
C9_Witness ==
    \E p, q \in Procs :
        /\ p # q
        /\ req[p].op = "change_balance" /\ req[q].op = "change_balance"
        /\ req[p].tg_id = req[q].tg_id /\ req[p].tg_id \in DOMAIN users
        /\ pc[p] = "fetchrow" /\ held[p] = 1
        /\ pc[q] = "release" /\ held[q] = 1 /\ row[q] # None
        /\ p < q

\* ---------------------------------------------------------------- C3
UnknownUser(r) == r.op # "none" /\ r.tg_id \notin DOMAIN users

\* A birth_date that is absent (or empty) or a date of the calendar.
DateAccepted(r) ==
    r.op = "save_personal_data"
    => \/ r.birth_date \in {None, Some(<<>>)}
       \/ strptime(r.birth_date[1]) # None

C3_NotFound ==
    \A p \in Procs :
        (pc[p] = "done" /\ UnknownUser(req[p]) /\ DateAccepted(req[p]) /\ ~exc[p])
        => /\ response[p].status = 404
           /\ DOMAIN response[p] = {"status", "detail"}

C3_NothingStored ==
    \A p \in Procs :
        (pc'[p] # pc[p] /\ UnknownUser(req'[p]))
        => users' = users /\ deposit_addresses' = deposit_addresses

\* C3: a request for a tg_id with no row in users is answered 404 with no
\* result field, and no step of its handler changes a table.
C3_UnknownTgId == []C3_NotFound /\ [][C3_NothingStored]_vars

\* Both writing endpoints have answered 404 for the unknown tg_id.
C3_Witness ==
    \E p, q \in Procs :
        /\ pc[p] = "done" /\ req[p].op = "save_personal_data"
        /\ pc[q] = "done" /\ req[q].op = "change_balance"
        /\ UnknownUser(req[p]) /\ UnknownUser(req[q])
        /\ response[p].status = 404 /\ response[q].status = 404
        /\ users = InitUsers(balance0)

\* ---------------------------------------------------------------- C4
\* Strings that name no day of the calendar.
NoCalendarDay == {NoSuchDay, NotLeapDay}

Unparseable(s) == s \in NoCalendarDay \/ strptime(s) = None

Rejected(p) ==
    /\ pc[p] = "done" /\ response[p].status = 400
    /\ held[p] = 0 /\ pos[p] = 0 /\ row[p] = None

\* C4 as written: every birth_date that is not null, the empty string
\* included, is answered 400 when it does not parse.
C4_EveryStringRejected ==
    \A p \in Procs :
        (req[p].op = "save_personal_data" /\ req[p].birth_date # None
           /\ Unparseable(req[p].birth_date[1]))
        => Rejected(p)

IllDated(r) ==
    /\ r.op = "save_personal_data"
    /\ r.birth_date # None /\ r.birth_date[1] # <<>>
    /\ Unparseable(r.birth_date[1])

C4_Rejected == \A p \in Procs : IllDated(req[p]) => Rejected(p)

C4_NoWrite ==
    (users' # users \/ held' # held \/ log' # log)
    => \A p \in Procs :
          (pc'[p] # pc[p] \/ req'[p] # req[p]) => ~IllDated(req'[p])

\* C4 (amended): a birth_date that is a non-empty string and does not parse
\* as a date of the calendar is answered 400 with no connection taken and
\* no row written.
C4_InvalidBirthDate == []C4_Rejected /\ [][C4_NoWrite]_vars

\* "2024-02-30" for an existing user has been answered 400 and the user's
\* row is as it was.
C4_Witness ==
    \E p \in Procs :
        /\ req[p].op = "save_personal_data" /\ req[p].birth_date = Some(NoSuchDay)
        /\ req[p].tg_id \in DOMAIN users
        /\ Rejected(p)
        /\ users = InitUsers(balance0)

\* ---------------------------------------------------------------- C5
\* The last save of user t among the first k statements of log (0: none).
RECURSIVE LastSaveBefore(_, _)
LastSaveBefore(t, k) ==
    IF k = 0 THEN 0
    ELSE IF log[k].op = "save_personal_data" /\ log[k].tg_id = t THEN k
    ELSE LastSaveBefore(t, k - 1)

\* Zero-padded YYYY-MM-DD: ten characters, none of them a blank.
ZeroPadded(s) == Len(s) = 10 /\ \A i \in 1..10 : s[i] # " "

\* C5 as written: the get that follows a save gives back the four
\* values of the save, birth_date as the string that was sent.
C5_SameString ==
    \A p \in Procs :
        LET j == LastSaveBefore(req[p].tg_id, pos[p]) IN
        (Answered(p, "get_personal_data") /\ j > 0)
        => response[p].body =
              [first_name |-> log[j].first_name, last_name |-> log[j].last_name,
               birth_date |-> log[j].birth_date, gender |-> log[j].gender]

\* C5 (amended): the get that follows a save gives back the names and the
\* gender of the save; birth_date comes back as the string that was sent
\* when that string is zero-padded YYYY-MM-DD, as null when none or the
\* empty string was sent, and as the zero-padded form of the same date
\* otherwise.
C5_RoundTrip ==
    \A p \in Procs :
        LET j == LastSaveBefore(req[p].tg_id, pos[p]) IN
        (Answered(p, "get_personal_data") /\ j > 0)
        => LET sent == log[j].birth_date
               got  == response[p].body.birth_date
           IN  /\ response[p].body.first_name = log[j].first_name
               /\ response[p].body.last_name = log[j].last_name
               /\ response[p].body.gender = log[j].gender
               /\ IF sent \in {None, Some(<<>>)} THEN got = None
                  ELSE IF ZeroPadded(sent[1]) THEN got = sent
                  ELSE /\ got # None /\ ZeroPadded(got[1])
                       /\ strptime(got[1]) = strptime(sent[1])

\* A get has given back the full profile saved before it, the date included.
C5_Witness ==
    \E p \in Procs :
        LET j == LastSaveBefore(req[p].tg_id, pos[p]) IN
        /\ Answered(p, "get_personal_data") /\ j > 0
        /\ log[j].birth_date = Some(LeapDay)
        /\ response[p].body.birth_date = Some(LeapDay)
        /\ response[p].body.first_name = Some("Ann")

\* ---------------------------------------------------------------- C6
C6_Step ==
    \A p \in Procs :
        (Moved(p) /\ req[p].op = "save_personal_data" /\ req[p].tg_id \in DOMAIN users)
        => LET new == users'[req[p].tg_id] IN
           /\ new.first_name = req[p].first_name
           /\ new.last_name = req[p].last_name
           /\ new.gender = req[p].gender
           /\ IF req[p].birth_date \in {None, Some(<<>>)}
              THEN new.birth_date = None
              ELSE new.birth_date = strptime(req[p].birth_date[1])
           /\ row'[p] = Some([first_name |-> new.first_name,
                              last_name |-> new.last_name,
                              birth_date |-> new.birth_date,
                              gender |-> new.gender])

C6_Echo ==
    \A p \in Procs :
        Answered(p, "save_personal_data")
        => /\ response[p].body.first_name = req[p].first_name
           /\ response[p].body.last_name = req[p].last_name
           /\ response[p].body.gender = req[p].gender
           /\ IF row[p][1].birth_date = None
              THEN response[p].body.birth_date = None
              ELSE /\ response[p].body.birth_date # None
                   /\ strptime(response[p].body.birth_date[1]) = row[p][1].birth_date

\* C6: a save that finds the user sets the four profile fields to the
\* values of the request, null for every field the request leaves out, and
\* answers with the row as stored.
C6_OverwriteAll == []C6_Echo /\ [][C6_Step]_vars

\* The empty payload has erased the profile user 1 had.
C6_Witness ==
    \E p \in Procs :
        /\ Answered(p, "save_personal_data") /\ req[p].tg_id = 1
        /\ req[p].first_name = None /\ req[p].birth_date = None
        /\ InitUsers(balance0)[1].first_name # None
        /\ users[1].first_name = None /\ users[1].last_name = None
        /\ users[1].birth_date = None /\ users[1].gender = None

\* ---------------------------------------------------------------- C7
\* The rows of deposit_addresses that belong to the user of tg_id t.
RowsOf(t) ==
    {r \in deposit_addresses : t \in DOMAIN users /\ r.user_id = users[t].id}

\* C7: get-deposit-address answers with the address of a row of that user
\* whose assigned_at no other row of the user exceeds, and answers 404
\* "Deposit address not found" exactly when the user has no row.
C7_LatestAddress ==
    \A p \in Procs :
        (pc[p] = "done" /\ req[p].op = "get_deposit_address" /\ ~exc[p])
        => LET R == RowsOf(req[p].tg_id) IN
           /\ (response[p] = HTTPException(404, "Deposit address not found"))
                 <=> (R = {})
           /\ R # {} =>
                 /\ response[p].status = 200
                 /\ \E r \in R :
                       /\ response[p].body = [address |-> r.address]
                       /\ \A q \in R : q.assigned_at <= r.assigned_at

\* User 1 has an older and a newer address and got the newer one.
C7_Witness ==
    \E p \in Procs :
        /\ Answered(p, "get_deposit_address") /\ req[p].tg_id = 1
        /\ \E old, new \in RowsOf(1) : old.assigned_at < new.assigned_at
        /\ \E r \in deposit_addresses : r.user_id # users[1].id /\ r.assigned_at = 3
        /\ response[p].body.address \in {"a_new", "a_tie"}

\* ---------------------------------------------------------------- C8
\* C8: a handler holds at most one connection and only between its acquire
\* and its release, so no more than max_size are out and none is out once
\* every handler has returned or raised.
C8_PoolReleased ==
    /\ InUse <= max_size
    /\ \A p \in Procs :
          /\ held[p] \in {0, 1}
          /\ pc[p] \in {"idle", "acquire", "done"} => held[p] = 0
    /\ (\A p \in Procs : pc[p] \in {"idle", "done"}) => InUse = 0

\* With a pool of one connection, a handler whose query failed has answered
\* 500 and another handler holds the connection after it.
C8_Witness ==
    \E p, q \in Procs :
        /\ max_size = 1
        /\ pc[p] = "done" /\ exc[p] /\ response[p].status = 500 /\ held[p] = 0
        /\ pc[q] = "fetchrow" /\ held[q] = 1

\* --------------------------------------------------------------- C10
Profile(u) == <<u.first_name, u.last_name, u.birth_date, u.gender>>

C10_Step ==
    /\ deposit_addresses' = deposit_addresses
    /\ DOMAIN users' = DOMAIN users
    /\ \A t \in DOMAIN users :
          /\ users'[t].id = users[t].id
          /\ users'[t] # users[t] =>
                \E p \in Procs :
                    /\ pc[p] = "fetchrow" /\ pc'[p] = "release"
                    /\ req[p].tg_id = t
                    /\ \/ /\ req[p].op = "change_balance"
                          /\ Profile(users'[t]) = Profile(users[t])
                       \/ /\ req[p].op = "save_personal_data"
                          /\ users'[t].balance_usdt = users[t].balance_usdt

\* C10: a step changes at most one row of users, the row of the tg_id of a
\* change-balance (its balance only) or of a save-personal-data (its profile
\* only); no row of users or deposit_addresses appears or goes.
C10_Frame == [][C10_Step]_vars

\* Both writes have reached user 1, each leaving the other's columns, and
\* user 2 is as at the start.
C10_Witness ==
    \E p, q \in Procs :
        /\ Answered(p, "change_balance") /\ req[p].tg_id = 1
        /\ Answered(q, "save_personal_data") /\ req[q].tg_id = 1
        /\ users[1].balance_usdt # balance0[1]
        /\ Profile(users[1]) # Profile(InitUsers(balance0)[1])
        /\ users[2] = InitUsers(balance0)[2]
        /\ deposit_addresses = AddressRows

====
